---- MODULE Spec2Model ----
(***************************************************************************)
(* GraphSlick plugin (src/plugin.cpp): the graph context grdata_t and its  *)
(* graph callback, the chooser gschooser_t with its row list ch_nodes,     *)
(* load_file, enter, getl, destroyer and get_color_anyway.                 *)
(*                                                                         *)
(* groupman.h, colorgen.h and algo.hpp are not part of src/; what the      *)
(* plugin needs of them (the parsed group tree, the two colour generators, *)
(* the flowchart converter) is modelled from spec.md sections 3, 4.1, 6.   *)
(***************************************************************************)
EXTENDS Integers, Sequences, FiniteSets, TLC

(* ------------------------------ bounds -------------------------------- *)
\* base colours of the palette (colorgen_t)
NumBases == 2
\* variants (shades) one base colour offers (colorvargen_t)
NumVariants == 2
\* groups of a group file
MaxGroups == 2
\* NodeDefLists of the first group of a group file
MaxLists == 3
\* groupman_t objects allocated by load_file in one run
MaxLoads == 2
\* rows ch_nodes may hold (the vector itself is unbounded)
MaxRows == 6
\* node ids of the function whose flowchart converts to a non-empty graph
MaxNode == 2
\* iterations get_color_anyway's loop is followed for before it is reported
\* as not terminating
LoopFuel == 4
\* calls made in sequence on one pair of colour generators
MaxCalls == 8

(* --------------------------- program constants ------------------------ *)
chnt_gm == 0
chnt_gd == 1
chnt_nl == 3
rfm_soft == 0
rfm_rebuild == 1

NULL == 0

(* ------------------------------ helpers -------------------------------- *)
Range(s) == {s[i] : i \in DOMAIN s}

RECURSIVE SumSeq(_)
SumSeq(s) == IF s = <<>> THEN 0 ELSE Head(s) + SumSeq(Tail(s))

RECURSIVE Flat(_)
\* concatenation of a sequence of sequences
Flat(ss) == IF ss = <<>> THEN <<>> ELSE Head(ss) \o Flat(Tail(ss))

(* ----------------- colour generators (colorgen.h) --------------------- *)
\* A colour is a non-zero integer; 0 is the "exhausted" sentinel that
\* get_color_anyway tests with clr != 0.
Color(b, v) == (b - 1) * NumVariants + v
BaseOf(c) == ((c - 1) \div NumVariants) + 1
Colors == {Color(b, v) : b \in 1..NumBases, v \in 1..NumVariants}

\* colorgen_t after construction: no base handed out yet
NewCg == [bi |-> 0]
\* colorvargen_t after construction: bound to no base, so no variant
NewCv == [base |-> 0, vi |-> 0]

\* colorvargen_t::get_color: the next shade of the current base, or 0
get_color(cv) ==
  IF cv.base # 0 /\ cv.vi < NumVariants
  THEN [clr |-> Color(cv.base, cv.vi + 1), cv |-> [cv EXCEPT !.vi = cv.vi + 1]]
  ELSE [clr |-> 0, cv |-> cv]

\* colorgen_t::get_colorvar: advance to a new base and bind cv to it; false,
\* with cv untouched, when every base was handed out in this cycle
get_colorvar(cg, cv) ==
  IF cg.bi < NumBases
  THEN [ok |-> TRUE, cg |-> [bi |-> cg.bi + 1], cv |-> [base |-> cg.bi + 1, vi |-> 0]]
  ELSE [ok |-> FALSE, cg |-> cg, cv |-> cv]

\* colorgen_t::rewind: back to the first base
rewind(cg) == [bi |-> 0]

RECURSIVE gca_loop_norewind(_, _, _, _)
gca_loop_norewind(cg, cv, iters, fuel) ==
  IF fuel = 0
  THEN [clr |-> 0, cg |-> cg, cv |-> cv, iters |-> iters, done |-> FALSE]
  ELSE LET r == get_color(cv) IN
       IF r.clr # 0
       THEN [clr |-> r.clr, cg |-> cg, cv |-> r.cv, iters |-> iters + 1, done |-> TRUE]
       ELSE LET g == get_colorvar(cg, r.cv) IN
            gca_loop_norewind(g.cg, g.cv, iters + 1, fuel - 1)

RECURSIVE gca_loop(_, _, _, _)
\* the while (true) loop of get_color_anyway; iters counts the passes through
\* the loop body, done is FALSE when fuel passes did not reach the break
gca_loop(cg, cv, iters, fuel) ==
  IF fuel = 0
  THEN [clr |-> 0, cg |-> cg, cv |-> cv, iters |-> iters, done |-> FALSE]
  ELSE LET r == get_color(cv) IN
       IF r.clr # 0
       THEN [clr |-> r.clr, cg |-> cg, cv |-> r.cv, iters |-> iters + 1, done |-> TRUE]
       ELSE LET g == get_colorvar(cg, r.cv) IN
            IF ~g.ok
            THEN LET g2 == get_colorvar(rewind(g.cg), g.cv) IN
                 gca_loop(g2.cg, g2.cv, iters + 1, fuel - 1)
            ELSE gca_loop(g.cg, g.cv, iters + 1, fuel - 1)

\* a get_color_anyway that forgets to rewind when the bases are exhausted
get_color_anyway_norewind(cg, cv) == gca_loop_norewind(cg, cv, 0, LoopFuel)

\* gschooser_t::get_color_anyway
get_color_anyway(cg, cv) == gca_loop(cg, cv, 0, LoopFuel)

(* ------------------- group trees (groupman.h) ------------------------- *)
\* A tree is the sequence of its GroupDefs, a GroupDef the sequence of its
\* NodeDefLists (nodegroups), a NodeDefList the sequence of its node ids.
\* The group files of the model: g groups, the first with k lists and every
\* other with one; the first list of a group holds two nodes, the others
\* one; node ids are consecutive, so no node is in two lists.
ShapeOf(g, k) == [i \in 1..g |-> IF i = 1 THEN k ELSE 1]
Shapes == {<<>>} \cup {ShapeOf(g, k) : g \in 1..MaxGroups, k \in 0..MaxLists}

GroupSize(c) == IF c = 0 THEN 0 ELSE c + 1
Offset(shape, g) == SumSeq([h \in 1..(g - 1) |-> GroupSize(shape[h])])
MkList(off, j) == IF j = 1 THEN <<off + 1, off + 2>> ELSE <<off + j + 1>>
MkTree(shape) ==
  [g \in 1..Len(shape) |-> [j \in 1..shape[g] |-> MkList(Offset(shape, g), j)]]
Trees == {MkTree(s) : s \in Shapes}

\* groupman_t::get_groups
get_groups(tree) == tree
\* all node ids of a tree / of a node-group list
NglIds(ngl) == Range(Flat(ngl))
TreeIds(tree) == UNION {NglIds(tree[g]) : g \in DOMAIN tree}
\* rows a tree flattens to: 1 + sum over groups of (1 + |nodegroups|)
RowCount(tree) == 1 + SumSeq([g \in DOMAIN tree |-> 1 + Len(tree[g])])

(* --------------------- flowchart converter (algo.hpp) ----------------- *)
\* function addresses the graph may be opened for: the flowchart of FuncA
\* converts to MaxNode nodes, that of FuncB cannot be built and converts to
\* no node at all
FuncA == 1
FuncB == 2
Addrs == {FuncA, FuncB}
NodeText(a, n) == <<"text", a, n>>
\* func_to_mgraph: the node map of the function at ea, replacing the old one
func_to_mgraph(a) ==
  IF a = FuncA THEN [n \in 1..MaxNode |-> [text |-> NodeText(a, n)]]
  ELSE [n \in {} |-> [text |-> NodeText(a, n)]]

EmptyMap == [n \in {} |-> 0]

(* ------------------------------- state -------------------------------- *)
VARIABLES
  \* gschooser_t
  ch_nodes,      \* chooser_node_vec_t: the rows
  gm,            \* groupman_t *: NULL or the address of a groupman_t
  gr,            \* grdata_t *: NULL or the address of the graph context
  singleton,     \* gschooser_t::singleton: NULL once the chooser is deleted
  \* the groupman_t objects allocated so far: heap[a] = [tree, live]
  heap,
  \* grdata_t (the one graph context show_graph creates)
  ctx_alive,     \* created and not yet deleted
  ctx_freed,     \* deleted by grcode_destroyed (delete this)
  ea,
  node_map,
  cur_node,
  gv,
  form,
  sel_nodes,
  parent_ref,    \* NULL or the address of the chooser's gr
  refresh_mode,
  \* the process: stopped by a fault; went through undefined behaviour
  crashed,
  ub_done,
  \* the last event and what it did (history)
  ev,
  \* a pair of colour generators driven on their own, and get_color_anyway's
  \* last result on them
  cgs, cvs, ncalls, ret

chooser_vars == <<ch_nodes, gm, gr, heap>>
ctx_vars == <<ctx_alive, ea, node_map, cur_node, gv, form, sel_nodes, parent_ref, refresh_mode>>
cg_vars == <<cgs, cvs, ncalls, ret>>
life_vars == <<singleton, ctx_freed>>
vars == <<ch_nodes, gm, gr, heap, ctx_alive, ea, node_map, cur_node, gv, form,
          sel_nodes, parent_ref, refresh_mode, crashed, ub_done, ev, cgs, cvs, ncalls, ret,
          singleton, ctx_freed>>

GR == 1  \* the address of the graph context
NoRet == [clr |-> 0, iters |-> 0, done |-> TRUE, cg0 |-> NewCg, cv0 |-> NewCv]

\* the record of an event: again says the event before it was a paint pull,
\* bg that the caller passed a place for the colour, ub0 that the run had
\* gone through undefined behaviour before the event
Ev(op, n) ==
  [op |-> op, n |-> n, applied |-> FALSE, refreshed |-> FALSE, conv |-> FALSE,
   ub |-> FALSE, pre |-> {}, out |-> <<>>, again |-> FALSE, bg |-> FALSE,
   ub0 |-> ub_done]

\* gschooser_t() and the graph context before show_graph
InitMain ==
  /\ ch_nodes = <<>>
  /\ gm = NULL
  /\ gr = NULL
  /\ heap = <<>>
  /\ ctx_alive = FALSE
  /\ ea = 0
  /\ node_map = EmptyMap
  /\ cur_node = 0
  /\ gv = NULL
  /\ form = NULL
  /\ sel_nodes = EmptyMap
  /\ parent_ref = NULL
  /\ refresh_mode = rfm_soft
  /\ crashed = FALSE
  /\ ub_done = FALSE
  /\ singleton = 1
  /\ ctx_freed = FALSE
  /\ ev = [op |-> "init", n |-> 0, applied |-> FALSE, refreshed |-> FALSE, conv |-> FALSE,
           ub |-> FALSE, pre |-> {}, out |-> <<>>, again |-> FALSE, bg |-> FALSE,
           ub0 |-> FALSE]

Init ==
  /\ InitMain
  /\ cgs = NewCg
  /\ cvs = NewCv
  /\ ncalls = 0
  /\ ret = NoRet

(* ----------------------------- load_file ------------------------------ *)
\* what groupman_t::parse comes to: a tree, or failure
ParseFail == [ok |-> FALSE, tree |-> <<>>]
ParseResults == {[ok |-> TRUE, tree |-> t] : t \in Trees} \cup {ParseFail}

Row(type, gmp, gd, ngl, nl) == [type |-> type, gm |-> gmp, gd |-> gd, ngl |-> ngl, nl |-> nl]

\* the third-level rows of one group: one chnt_nl row per NodeDefList
ListRows(gmp, tree, g) ==
  [j \in 1..Len(tree[g]) |-> Row(chnt_nl, gmp, g, g, j)]

\* a row builder that pushes a group's row after the rows of its lists
GroupRowsAfter(gmp, tree, g) ==
  ListRows(gmp, tree, g) \o <<Row(chnt_gd, gmp, g, g, NULL)>>

\* the body of load_file's outer loop: the chnt_gd row, then its list rows
GroupRows(gmp, tree, g) ==
  <<Row(chnt_gd, gmp, g, g, NULL)>> \o ListRows(gmp, tree, g)

RECURSIVE PushGroups(_, _, _)
PushGroups(gmp, tree, g) ==
  IF g > Len(tree) THEN <<>>
  ELSE GroupRows(gmp, tree, g) \o PushGroups(gmp, tree, g + 1)

\* the rows load_file pushes for a parsed tree, in push order
PushedRows(gmp, tree) ==
  <<Row(chnt_gm, gmp, NULL, NULL, NULL)>> \o PushGroups(gmp, tree, 1)

\* delete gm
DeleteGm(h, p) == IF p = NULL THEN h ELSE [h EXCEPT ![p].live = FALSE]

\* load_file on a file that parses to res (or fails to parse): the
\* chooser's heap, gm and ch_nodes afterwards, and the value returned
load_file(res) ==
  LET h1 == DeleteGm(heap, gm)
      p  == Len(h1) + 1
  IN IF ~res.ok
     THEN [ok |-> FALSE, gm |-> p, ch_nodes |-> ch_nodes,
           heap |-> Append(h1, [tree |-> <<>>, live |-> FALSE])]
     ELSE [ok |-> TRUE, gm |-> p, ch_nodes |-> ch_nodes \o PushedRows(p, res.tree),
           heap |-> Append(h1, [tree |-> res.tree, live |-> TRUE])]

\* the model's caps on allocations and rows
CanLoad(res) ==
  /\ Len(heap) < MaxLoads
  /\ res.ok => Len(ch_nodes) + RowCount(res.tree) <= MaxRows

\* delete gm on a gm that load_file deleted before (a failed parse leaves gm
\* pointing at the deleted object)
DoubleDelete == gm # NULL /\ ~heap[gm].live

Crash(op, n) ==
  /\ crashed' = TRUE
  /\ ub_done' = TRUE
  /\ ev' = [Ev(op, n) EXCEPT !.ub = TRUE]
  /\ UNCHANGED <<chooser_vars, ctx_vars, cg_vars, life_vars>>

\* load_file called on its own
LoadFile ==
  /\ ~crashed /\ singleton # NULL
  /\ \E res \in ParseResults :
       /\ CanLoad(res)
       /\ \/ DoubleDelete /\ Crash("load_file", 0)
          \/ LET r == load_file(res) IN
             /\ ch_nodes' = r.ch_nodes
             /\ gm' = r.gm
             /\ heap' = r.heap
             /\ ev' = [Ev("load_file", Len(ch_nodes)) EXCEPT !.applied = r.ok, !.ub = DoubleDelete]
             /\ ub_done' = (ub_done \/ DoubleDelete)
             /\ UNCHANGED <<gr, ctx_vars, crashed, cg_vars, life_vars>>

(* ---------------------------- show_graph ------------------------------ *)
\* what show_graph comes to: NULL (no function, or no window in two tries),
\* a context without viewer (create_graph_viewer gave NULL), a context
\* with viewer and form
ShowOutcomes == {"null", "nogv", "ok"}

\* initializer: load_file, then show_graph on the first node's function
Initializer ==
  /\ ~crashed /\ singleton # NULL
  /\ heap = <<>>
  /\ \E res \in ParseResults, sg \in ShowOutcomes, a \in Addrs :
       /\ CanLoad(res)
       /\ LET r == load_file(res) IN
          \/ /\ ~r.ok
             /\ ch_nodes' = r.ch_nodes /\ gm' = r.gm /\ heap' = r.heap
             /\ ev' = Ev("initializer", 0)
             /\ UNCHANGED <<gr, ctx_vars, crashed, ub_done, cg_vars, life_vars>>
          \* *nodes->begin() on a tree without nodes reads past an empty
          \* list: the process may stop there
          \/ /\ r.ok /\ TreeIds(res.tree) = {}
             /\ crashed' = TRUE
             /\ ub_done' = TRUE
             /\ ch_nodes' = r.ch_nodes /\ gm' = r.gm /\ heap' = r.heap
             /\ ev' = [Ev("initializer", 0) EXCEPT !.ub = TRUE]
             /\ UNCHANGED <<gr, ctx_vars, cg_vars, life_vars>>
          \/ /\ r.ok
             /\ ch_nodes' = r.ch_nodes /\ gm' = r.gm /\ heap' = r.heap
             /\ ev' = [Ev("initializer", Len(ch_nodes)) EXCEPT
                         !.applied = TRUE, !.ub = (TreeIds(res.tree) = {})]
             /\ ub_done' = (TreeIds(res.tree) = {})
             /\ IF sg = "null"
                THEN /\ gr' = NULL
                     /\ UNCHANGED ctx_vars
                ELSE /\ gr' = GR
                     /\ ctx_alive' = TRUE
                     /\ ea' = a
                     /\ node_map' = EmptyMap
                     /\ cur_node' = 0
                     /\ gv' = (IF sg = "ok" THEN 1 ELSE NULL)
                     /\ form' = (IF sg = "ok" THEN 1 ELSE NULL)
                     /\ sel_nodes' = EmptyMap
                     /\ parent_ref' = 1
                     /\ refresh_mode' = rfm_soft
             /\ UNCHANGED <<crashed, cg_vars, life_vars>>

(* ------------------------------- enter -------------------------------- *)
\* IS_SEL (kernwin.hpp): n is a row number, not the header and not "nothing
\* selected"
IS_SEL(n) == n > 0

\* gr->sel_nodes[it->nid] = clr for every node of one NodeDefList
ColorList(sel, nl, clr) ==
  [id \in (DOMAIN sel) \cup Range(nl) |-> IF id \in Range(nl) THEN clr ELSE sel[id]]

RECURSIVE ColorNglSame(_, _, _, _, _)
ColorNglSame(ngl, j, cg, cv, sel) ==
  IF j > Len(ngl) THEN [sel |-> sel, cg |-> cg, cv |-> cv]
  ELSE LET r == IF j = 1 THEN get_color_anyway(cg, cv)
                ELSE [clr |-> sel[ngl[1][1]], cg |-> cg, cv |-> cv]
       IN ColorNglSame(ngl, j + 1, r.cg, r.cv, ColorList(sel, ngl[j], r.clr))

RECURSIVE ColorNgl(_, _, _, _, _)
\* the loop over a node-group list: a colour from get_color_anyway for each
\* NodeDefList, set on each of its nodes
ColorNgl(ngl, j, cg, cv, sel) ==
  IF j > Len(ngl) THEN [sel |-> sel, cg |-> cg, cv |-> cv]
  ELSE LET r == get_color_anyway(cg, cv)
       IN ColorNgl(ngl, j + 1, r.cg, r.cv, ColorList(sel, ngl[j], r.clr))

\* a chnt_nl branch that does not clear sel_nodes first
enter_nl_noclear(sel, nl) ==
  LET g == get_colorvar(NewCg, NewCv)
      r == get_color_anyway(g.cg, g.cv)
  IN ColorList(sel, nl, r.clr)

\* case chnt_nl: DECL_CG, sel_nodes.clear(), one colour for the list
enter_nl(sel, nl) ==
  LET g == get_colorvar(NewCg, NewCv)
      r == get_color_anyway(g.cg, g.cv)
  IN ColorList(EmptyMap, nl, r.clr)

\* a chnt_gd branch that draws one colour and uses it for every list
enter_gd_onecolor(sel, ngl) ==
  LET g == get_colorvar(NewCg, NewCv)
  IN ColorNglSame(ngl, 1, g.cg, g.cv, EmptyMap).sel

\* a chnt_gd branch whose generator goes on from where an earlier selection
\* left it: on the second base when nodes are highlighted already
enter_gd_keepgen(sel, ngl) ==
  LET g == get_colorvar([bi |-> IF DOMAIN sel = {} THEN 0 ELSE 1], NewCv)
  IN ColorNgl(ngl, 1, g.cg, g.cv, EmptyMap).sel

\* case chnt_gd: DECL_CG, sel_nodes.clear(), one base, a variant per list
enter_gd(sel, ngl) ==
  LET g == get_colorvar(NewCg, NewCv)
  IN ColorNgl(ngl, 1, g.cg, g.cv, EmptyMap).sel

RECURSIVE ColorGroupsNoBase(_, _, _, _, _)
ColorGroupsNoBase(groups, g, cg, cv, sel) ==
  IF g > Len(groups) THEN sel
  ELSE LET b == IF g = 1 THEN get_colorvar(cg, cv) ELSE [cg |-> cg, cv |-> cv]
           r == ColorNgl(groups[g], 1, b.cg, b.cv, sel)
       IN ColorGroupsNoBase(groups, g + 1, r.cg, r.cv, r.sel)

RECURSIVE ColorGroups(_, _, _, _, _)
\* the walk over all groups: get_colorvar for each GroupDef (its result is
\* not looked at), then the loop over its node-group list
ColorGroups(groups, g, cg, cv, sel) ==
  IF g > Len(groups) THEN sel
  ELSE LET b == get_colorvar(cg, cv)
           r == ColorNgl(groups[g], 1, b.cg, b.cv, sel)
       IN ColorGroups(groups, g + 1, r.cg, r.cv, r.sel)

\* a chnt_gm branch that asks for a new base for the first group only
enter_gm_nobase(sel, tree) == ColorGroupsNoBase(get_groups(tree), 1, NewCg, NewCv, sel)

\* case chnt_gm: DECL_CG and the walk; sel_nodes is written into as it is
enter_gm(sel, tree) == ColorGroups(get_groups(tree), 1, NewCg, NewCv, sel)

\* the row's tree is still allocated
RowLive(chn) == heap[chn.gm].live

\* what a read through a pointer into a deleted tree may find there: the
\* tree as it was, or containers that read as empty (or the process stops,
\* see Crash)
Emptied(t) == [g \in DOMAIN t |-> [j \in DOMAIN t[g] |-> <<>>]]
StaleReads(t) == {t, Emptied(t)}

EnterDone(n, applied, refreshed, ub) ==
  /\ ev' = [Ev("enter", n) EXCEPT !.applied = applied, !.refreshed = refreshed,
                                  !.ub = ub, !.pre = DOMAIN sel_nodes]
  /\ ub_done' = (ub_done \/ ub)

\* enter on a chnt_gm row
EnterGm(n) ==
  \/ /\ ~heap[gm].live
     /\ Crash("enter", n)
  \/ \E t \in IF heap[gm].live THEN {heap[gm].tree} ELSE StaleReads(heap[gm].tree) :
       IF TreeIds(t) = {}
       THEN /\ EnterDone(n, TRUE, FALSE, ~heap[gm].live)
            /\ UNCHANGED <<chooser_vars, ctx_vars, crashed, cg_vars, life_vars>>
       ELSE IF gr = NULL
            \* gr->sel_nodes[...] through a null gr
            THEN Crash("enter", n)
            ELSE /\ sel_nodes' = enter_gm(sel_nodes, t)
                 /\ EnterDone(n, TRUE, FALSE, ~heap[gm].live)
                 /\ UNCHANGED <<chooser_vars, ctx_alive, ea, node_map, cur_node, gv,
                                form, parent_ref, refresh_mode, crashed, cg_vars, life_vars>>

\* enter on a chnt_nl or chnt_gd row
EnterSel(n) ==
  LET chn == ch_nodes[n] IN
  IF gr = NULL \/ gv = NULL
  THEN /\ EnterDone(n, FALSE, FALSE, FALSE)
       /\ UNCHANGED <<chooser_vars, ctx_vars, crashed, cg_vars, life_vars>>
  ELSE \/ /\ ~RowLive(chn)
          /\ Crash("enter", n)
       \/ \E t \in IF RowLive(chn) THEN {heap[chn.gm].tree} ELSE StaleReads(heap[chn.gm].tree) :
            /\ sel_nodes' = IF chn.type = chnt_nl
                            THEN enter_nl(sel_nodes, t[chn.gd][chn.nl])
                            ELSE enter_gd(sel_nodes, t[chn.ngl])
            \* refresh_viewer(gr->gv)
            /\ EnterDone(n, TRUE, TRUE, ~RowLive(chn))
            /\ UNCHANGED <<chooser_vars, ctx_alive, ea, node_map, cur_node, gv,
                           form, parent_ref, refresh_mode, crashed, cg_vars, life_vars>>

\* gschooser_t::enter (and select, which passes sel[0] on to it)
Enter ==
  /\ ~crashed /\ singleton # NULL
  /\ \E n \in 0..(Len(ch_nodes) + 1) :
       IF ~IS_SEL(n) \/ n > Len(ch_nodes)
       THEN /\ EnterDone(n, FALSE, FALSE, FALSE)
            /\ UNCHANGED <<chooser_vars, ctx_vars, crashed, cg_vars, life_vars>>
       ELSE IF ch_nodes[n].type = chnt_gm THEN EnterGm(n) ELSE EnterSel(n)

(* ---------------------------- gr_callback ----------------------------- *)
\* the graph viewer exists and calls back with this context
ViewerUp == ctx_alive /\ gv # NULL

\* a test that sends every pull to the converter
rebuild_always(nm, mode) == TRUE

\* the test of case grcode_user_refresh: the converter has to be called
rebuild_needed(nm, mode) == DOMAIN nm = {} \/ mode = rfm_rebuild

\* case grcode_user_refresh: the node map after the pull
user_refresh(nm, mode, a) ==
  IF rebuild_needed(nm, mode) THEN func_to_mgraph(a) ELSE nm

\* applied: the pull left another node map than it found
UserRefresh ==
  /\ ~crashed /\ ViewerUp
  /\ node_map' = user_refresh(node_map, refresh_mode, ea)
  /\ ev' = [Ev("user_refresh", 0) EXCEPT
              !.conv = rebuild_needed(node_map, refresh_mode),
              !.applied = (node_map' # node_map),
              !.again = (ev.op = "user_refresh"),
              !.pre = DOMAIN sel_nodes, !.out = <<1>>]
  /\ UNCHANGED <<chooser_vars, ctx_alive, ea, cur_node, gv, form, sel_nodes,
                 parent_ref, refresh_mode, crashed, ub_done, cg_vars, life_vars>>

\* a user_text that writes a colour whether or not the node is highlighted
user_text_anycolor(nm, sel, node, bg) ==
  <<nm[node].text, IF bg THEN (IF node \in DOMAIN sel THEN sel[node] ELSE 1) ELSE 0, 1>>

\* case grcode_user_text: *text, what is written to *bgcolor (0: nothing is
\* written), result; bg says whether bgcolor is not NULL
user_text(nm, sel, node, bg) ==
  <<nm[node].text, IF bg /\ node \in DOMAIN sel THEN sel[node] ELSE 0, 1>>

\* grcode_user_text, asked for a node of the graph
UserText ==
  /\ ~crashed /\ ViewerUp
  /\ \E node \in DOMAIN node_map, bg \in BOOLEAN :
       /\ ev' = [Ev("user_text", node) EXCEPT
                   !.bg = bg, !.out = user_text(node_map, sel_nodes, node, bg)]
       /\ UNCHANGED <<chooser_vars, ctx_vars, crashed, ub_done, cg_vars, life_vars>>

\* case grcode_changed_current
ChangedCurrent ==
  /\ ~crashed /\ ViewerUp
  /\ \E node \in DOMAIN node_map :
       /\ cur_node' = node
       /\ ev' = Ev("changed_current", node)
       /\ UNCHANGED <<chooser_vars, ctx_alive, ea, node_map, gv, form, sel_nodes,
                      parent_ref, refresh_mode, crashed, ub_done, cg_vars, life_vars>>

\* delete this: the fields of the deleted context are no longer state
DeleteCtx ==
  /\ ctx_alive' = FALSE
  /\ ctx_freed' = TRUE
  /\ gv' = NULL
  /\ form' = NULL
  /\ ea' = 0
  /\ node_map' = EmptyMap
  /\ cur_node' = 0
  /\ sel_nodes' = EmptyMap
  /\ parent_ref' = NULL
  /\ refresh_mode' = rfm_soft

\* parent_ref points into a chooser that delete_singleton deleted
OwnerGone == parent_ref # NULL /\ singleton = NULL

\* case grcode_destroyed. n = 1: the context nulls the owner's pointer and
\* deletes itself; *parent_ref = NULL into a deleted chooser is a write to
\* freed memory. n = 2: the notification comes (again) for a context that
\* has deleted itself, and the handler works on the freed object.
Destroyed ==
  /\ ~crashed
  /\ \/ /\ ViewerUp
        /\ \/ OwnerGone /\ Crash("destroyed", 1)
           \/ /\ gr' = IF parent_ref # NULL /\ singleton # NULL THEN NULL ELSE gr
              /\ DeleteCtx
              /\ ev' = [Ev("destroyed", 1) EXCEPT
                          !.applied = TRUE, !.ub = OwnerGone, !.out = <<1>>]
              /\ ub_done' = (ub_done \/ OwnerGone)
              /\ UNCHANGED <<ch_nodes, gm, heap, singleton, crashed, cg_vars>>
     \/ /\ ctx_freed
        /\ \/ Crash("destroyed", 2)
           \/ /\ ev' = [Ev("destroyed", 2) EXCEPT !.ub = TRUE, !.out = <<1>>]
              /\ ub_done' = TRUE
              /\ UNCHANGED <<chooser_vars, ctx_vars, crashed, cg_vars, life_vars>>

(* --------------------------- getl, destroyer -------------------------- *)
\* the line of the header, and no line at all
HeaderLine == <<"Node", 0, <<>>>>
NoLine == <<"", 0, <<>>>>

\* get_node_desc: the kind of line, the count it prints, the nodes it lists
get_node_desc(chn, t) ==
  IF chn.type = chnt_gm THEN <<"file", 0, <<>>>>
  ELSE IF chn.type = chnt_gd THEN <<"group", Len(t[chn.ngl]), <<>>>>
  ELSE <<"list", Len(t[chn.gd][chn.nl]), t[chn.gd][chn.nl]>>

\* a getl that takes n for a row number without the header
getl_noheader(n, t) ==
  IF n + 1 > Len(ch_nodes) THEN NoLine ELSE get_node_desc(ch_nodes[n + 1], t)

\* gschooser_t::getl: the column name for 0, row n-1 of the vector (the n-th
\* element of ch_nodes here) for n >= 1, nothing past the last row
getl(n, t) ==
  IF n = 0 THEN HeaderLine
  ELSE IF n - 1 >= Len(ch_nodes) THEN NoLine
  ELSE get_node_desc(ch_nodes[n], t)

Getl ==
  /\ ~crashed /\ singleton # NULL
  /\ \E n \in 0..(Len(ch_nodes) + 1) :
       LET stale == n \in DOMAIN ch_nodes /\ ~RowLive(ch_nodes[n])
           t0 == IF n \in DOMAIN ch_nodes THEN heap[ch_nodes[n].gm].tree ELSE <<>>
       IN \/ stale /\ Crash("getl", n)
          \/ \E t \in IF stale THEN StaleReads(t0) ELSE {t0} :
               /\ ev' = [Ev("getl", n) EXCEPT !.ub = stale, !.out = getl(n, t)]
               /\ ub_done' = (ub_done \/ stale)
               /\ UNCHANGED <<chooser_vars, ctx_vars, crashed, cg_vars, life_vars>>

\* close_graph: close_tform is called when gr and its form are there
CloseAsked == gr # NULL /\ form # NULL

\* gschooser_t::destroyer: close_graph, then delete_singleton (chi.flags is
\* 0, so the chooser is deleted). close_tform may deliver grcode_destroyed
\* before it returns (sync) or leave it for later; gm is not deleted by
\* ~gschooser_t. The fields of the deleted chooser are no longer state.
Destroyer ==
  /\ ~crashed /\ singleton # NULL
  /\ \E sync \in IF CloseAsked THEN BOOLEAN ELSE {FALSE} :
       /\ IF sync THEN DeleteCtx ELSE UNCHANGED <<ctx_vars, ctx_freed>>
       /\ singleton' = NULL
       /\ ch_nodes' = <<>>
       /\ gm' = NULL
       /\ gr' = NULL
       /\ ev' = [Ev("destroyer", 0) EXCEPT !.applied = CloseAsked]
       /\ UNCHANGED <<heap, crashed, ub_done, cg_vars>>

Next ==
  \/ Initializer \/ LoadFile \/ Enter \/ Getl \/ Destroyer
  \/ UserRefresh \/ UserText \/ ChangedCurrent \/ Destroyed

Spec == Init /\ [][Next]_vars

(* ------------- the colour generators driven on their own -------------- *)
CallGetColorAnyway ==
  /\ ncalls < MaxCalls
  /\ LET r == get_color_anyway(cgs, cvs) IN
     /\ cgs' = r.cg
     /\ cvs' = r.cv
     /\ ret' = [clr |-> r.clr, iters |-> r.iters, done |-> r.done, cg0 |-> cgs, cv0 |-> cvs]
  /\ ncalls' = ncalls + 1
  /\ UNCHANGED <<chooser_vars, ctx_vars, crashed, ub_done, ev, life_vars>>

\* cg.get_colorvar(cv), as enter calls it between calls of get_color_anyway
CallGetColorvar ==
  /\ ncalls < MaxCalls
  /\ LET g == get_colorvar(cgs, cvs) IN
     /\ cgs' = g.cg
     /\ cvs' = g.cv
  /\ UNCHANGED <<ncalls, ret, chooser_vars, ctx_vars, crashed, ub_done, ev, life_vars>>

\* DECL_CG: a selection starts on new generators
DeclCg ==
  /\ ncalls < MaxCalls
  /\ cgs' = NewCg
  /\ cvs' = NewCv
  /\ UNCHANGED <<ncalls, ret, chooser_vars, ctx_vars, crashed, ub_done, ev, life_vars>>

NextCG == CallGetColorAnyway \/ CallGetColorvar \/ DeclCg

SpecCG == Init /\ [][NextCG]_vars

(* ======================= properties of the claims ===================== *)
\* the last event was enter on a row of the given type, the handler went
\* through its colouring code, and every pointer it followed was valid
EnterOn(type) ==
  /\ ev.op = "enter" /\ ev.applied /\ ~ev.ub /\ ~crashed
  /\ ev.n \in DOMAIN ch_nodes
  /\ ch_nodes[ev.n].type = type

\* the run so far went through no undefined behaviour
Sound == ~ub_done

\* the NodeDefList and node-group list the last entered row points to
EvNl == LET chn == ch_nodes[ev.n] IN heap[chn.gm].tree[chn.gd][chn.nl]
EvNgl == LET chn == ch_nodes[ev.n] IN heap[chn.gm].tree[chn.ngl]
\* the colour the highlight holds for a (non-empty) NodeDefList
ColorOf(nl) == sel_nodes[nl[1]]
OneColor(nl) == \A id \in Range(nl) : id \in DOMAIN sel_nodes /\ sel_nodes[id] = ColorOf(nl)

\* C1: after enter on a chnt_nl row, sel_nodes holds exactly the node ids of
\* the row's NodeDefList, all with one and the same valid colour, whatever
\* sel_nodes held before.
C1_ListRowColorsExactlyItsList ==
  EnterOn(chnt_nl) =>
    /\ DOMAIN sel_nodes = Range(EvNl)
    /\ \E c \in Colors : \A id \in Range(EvNl) : sel_nodes[id] = c

\* C1 witness: a list of two nodes was selected while other nodes were
\* highlighted.
C1_Witness ==
  /\ EnterOn(chnt_nl)
  /\ Cardinality(Range(EvNl)) = 2
  /\ ev.pre \ Range(EvNl) # {}

\* C2 as stated: after enter on a chnt_gd row with k lists, the k lists carry
\* k distinct colours that all share one base, and sel_nodes holds exactly
\* the union of the lists' ids -- for every k.
C2_Original ==
  (Sound /\ EnterOn(chnt_gd)) =>
    /\ DOMAIN sel_nodes = NglIds(EvNgl)
    /\ \A j \in DOMAIN EvNgl : OneColor(EvNgl[j]) /\ ColorOf(EvNgl[j]) \in Colors
    /\ \A i, j \in DOMAIN EvNgl :
         /\ i # j => ColorOf(EvNgl[i]) # ColorOf(EvNgl[j])
         /\ BaseOf(ColorOf(EvNgl[i])) = BaseOf(ColorOf(EvNgl[j]))

\* C2 amended: after enter on a chnt_gd row, sel_nodes holds exactly the
\* union of the lists' ids, one valid colour per list; the j-th list has
\* variant ((j-1) mod NumVariants)+1 of base (((j-1) div NumVariants) mod
\* NumBases)+1, so the colours are k distinct variants of one base when
\* k <= NumVariants, run over into the next bases when k is larger, and
\* repeat after NumBases * NumVariants lists.
C2_GroupRowVariants ==
  EnterOn(chnt_gd) =>
    /\ DOMAIN sel_nodes = NglIds(EvNgl)
    /\ \A j \in DOMAIN EvNgl :
         /\ OneColor(EvNgl[j])
         /\ ColorOf(EvNgl[j]) =
              Color((((j - 1) \div NumVariants) % NumBases) + 1, ((j - 1) % NumVariants) + 1)
    /\ Len(EvNgl) <= NumVariants =>
         \A i, j \in DOMAIN EvNgl :
           /\ i # j => ColorOf(EvNgl[i]) # ColorOf(EvNgl[j])
           /\ BaseOf(ColorOf(EvNgl[i])) = BaseOf(ColorOf(EvNgl[j]))

\* C2 witness: a group with more lists than a base has variants was selected.
C2_Witness ==
  /\ EnterOn(chnt_gd)
  /\ Len(EvNgl) > NumVariants
  /\ ev.pre # {}

\* C3 as stated: after enter on the chnt_gm row (with a graph context), the
\* ids in sel_nodes are exactly the node ids of the loaded tree, each with
\* one valid colour; ids highlighted earlier and not in the tree are gone.
C3_FileRowClearsFirst ==
  (Sound /\ EnterOn(chnt_gm) /\ gr # NULL) =>
    /\ DOMAIN sel_nodes = TreeIds(heap[gm].tree)
    /\ \A id \in DOMAIN sel_nodes : sel_nodes[id] \in Colors

\* the tree the chnt_gm branch walks, and whether the palette suffices for it
EvTree == heap[gm].tree
PaletteSuffices(t) ==
  /\ Len(t) <= NumBases
  /\ \A g \in DOMAIN t : Len(t[g]) <= NumVariants

\* lists of one group differ in variant and share the base; the first list
\* of a group has a base no list of an earlier group has
GroupColoring(t) ==
  /\ \A g \in DOMAIN t : \A i, j \in DOMAIN t[g] :
       /\ i # j => ColorOf(t[g][i]) # ColorOf(t[g][j])
       /\ BaseOf(ColorOf(t[g][i])) = BaseOf(ColorOf(t[g][j]))
  /\ \A g, h \in DOMAIN t : \A i \in DOMAIN t[g], j \in DOMAIN t[h] :
       g # h => BaseOf(ColorOf(t[g][i])) # BaseOf(ColorOf(t[h][j]))

\* the scenario: one group with list A = {1,2} and list B = {3}
ScenarioTree == << << <<1, 2>>, <<3>> >> >>
Scenario(t) ==
  t = ScenarioTree => sel_nodes[1] = sel_nodes[2] /\ sel_nodes[1] # sel_nodes[3]

C5_SelectionRequestsRedraw ==
  (Sound /\ ev.op = "enter" /\ ev.applied /\ gr # NULL /\ gv # NULL) => ev.refreshed

\* C6 as stated: whenever a tree is loaded, the row count (sizer) is
\* 1 + the sum over the groups of the loaded tree of (1 + its lists).
C6_RowCount ==
  (Sound /\ gm # NULL /\ heap[gm].live) => Len(ch_nodes) = RowCount(heap[gm].tree)

\* C7 as stated: whenever a tree is loaded, every row points to it, no row
\* of an earlier load is left, and every earlier tree is released.
C7_ListRebuilt ==
  (Sound /\ gm # NULL /\ heap[gm].live) =>
    /\ \A i \in DOMAIN ch_nodes : ch_nodes[i].gm = gm
    /\ \A a \in DOMAIN heap : a # gm => ~heap[a].live

\* the position of group g's row among the rows of a tree
GroupPos(t, g) == 2 + SumSeq([h \in 1..(g - 1) |-> 1 + Len(t[h])])

\* C8: the rows a successful load_file appends are the chnt_gm row, then for
\* each group in tree order its chnt_gd row (pointing to the group and its
\* node-group list) directly followed by one chnt_nl row per list in list
\* order (pointing to the list, the group and its node-group list).
C8_RowsInPreOrder ==
  (ev.op \in {"load_file", "initializer"} /\ ev.applied) =>
    LET t == heap[gm].tree
        rows == SubSeq(ch_nodes, ev.n + 1, Len(ch_nodes))
    IN /\ Len(rows) = RowCount(t)
       /\ rows[1] = Row(chnt_gm, gm, NULL, NULL, NULL)
       /\ \A g \in DOMAIN t :
            /\ rows[GroupPos(t, g)] = Row(chnt_gd, gm, g, g, NULL)
            /\ \A j \in DOMAIN t[g] :
                 rows[GroupPos(t, g) + j] = Row(chnt_nl, gm, g, g, j)

\* C8 witness: a tree of two groups, the first with two lists or more, was
\* loaded.
C8_Witness ==
  /\ ev.op \in {"load_file", "initializer"} /\ ev.applied
  /\ Len(heap[gm].tree) = 2
  /\ Len(heap[gm].tree[1]) >= 2

C10_RebuildClearsHighlight ==
  (Sound /\ ev.op = "user_refresh" /\ ev.conv) => DOMAIN sel_nodes = {}

\* C11 as stated: a paint pull in Soft mode that directly follows a paint
\* pull does not call the converter and leaves node_map as it found it,
\* whatever the function is, a function whose graph has no nodes included.
C11_SecondPullIsCacheHit ==
  (Sound /\ ev.op = "user_refresh" /\ ev.again /\ refresh_mode = rfm_soft) =>
    ~ev.conv /\ ~ev.applied

C13_DestroyIdempotent ==
  (ev.op = "destroyed" /\ ~ev.ub0 /\ singleton # NULL) =>
    /\ ~ev.ub /\ ~crashed
    /\ gv = NULL /\ form = NULL /\ gr = NULL
    /\ ~ctx_alive /\ ctx_freed

\* C14 as stated: after a load that failed to parse, the list is as long as
\* before, every row points to a tree that is still allocated, and a list
\* with rows has its tree in gm; without an earlier load the list is empty.
C14_ParseFailureKeepsTree ==
  (Sound /\ ev.op \in {"load_file", "initializer"} /\ ~ev.applied) =>
    /\ Len(ch_nodes) = ev.n
    /\ \A i \in DOMAIN ch_nodes : heap[ch_nodes[i].gm].live
    /\ ch_nodes # <<>> => (gm # NULL /\ heap[gm].live)

\* the row a 1-based index n addresses: element n-1 of the vector, which is
\* the n-th element of the sequence ch_nodes
OutOfRange(n) == n = 0 \/ n > Len(ch_nodes)

\* the state part of C15: what enter and getl did for the index they got
C15_Addressing ==
  /\ (ev.op = "enter" /\ OutOfRange(ev.n)) =>
       ~ev.applied /\ ~ev.refreshed /\ ~ev.ub
  /\ (ev.op = "enter" /\ ~OutOfRange(ev.n) /\ ev.applied /\ ~ev.ub /\ ~crashed) =>
       LET chn == ch_nodes[ev.n]
           t == heap[chn.gm].tree
       IN IF chn.type = chnt_nl THEN DOMAIN sel_nodes = Range(t[chn.gd][chn.nl])
          ELSE IF chn.type = chnt_gd THEN DOMAIN sel_nodes = NglIds(t[chn.ngl])
          \* the chnt_gm branch walks the chooser's gm, not the row's
          ELSE gr # NULL => TreeIds(heap[gm].tree) \subseteq DOMAIN sel_nodes
  /\ (ev.op = "getl" /\ ~ev.ub) =>
       ev.out = IF ev.n = 0 THEN HeaderLine
                ELSE IF ev.n > Len(ch_nodes) THEN NoLine
                ELSE get_node_desc(ch_nodes[ev.n], heap[ch_nodes[ev.n].gm].tree)

\* the step part of C15: getl, and enter with an index out of range, change
\* nothing of the chooser or the graph context
C15_NoOp ==
  (ev'.op \in {"enter", "getl"} /\ (ev'.op = "getl" \/ OutOfRange(ev'.n))) =>
    UNCHANGED <<sel_nodes, ch_nodes, chooser_vars, ctx_vars>>

NoTreeReleased == \A a \in DOMAIN heap : heap[a].live

\* C16 as stated: enter on a row of any type, the chooser's gr being NULL
\* (no graph was opened, or the graph was destroyed), does not touch the
\* graph context: it goes through no null pointer and the process goes on.
C16_NullCheckedBeforeUse ==
  (ev.op = "enter" /\ ~ev.ub0 /\ ev.n \in DOMAIN ch_nodes /\ NoTreeReleased /\ gr = NULL) =>
    ~ev.ub /\ ~crashed

\* C17 as stated: the chooser's destroyer and the graph's first destroy
\* notification are safe in either order: neither goes through a pointer
\* to a released object, also when the notification is delivered after
\* delete_singleton released the chooser.
C17_TeardownEitherOrder ==
  ((ev.op = "destroyer" \/ (ev.op = "destroyed" /\ ev.n = 1)) /\ ~ev.ub0) =>
    ~ev.ub /\ ~crashed

\* the steps of C18: enter, and the paint pull right after enter
C18_Step ==
  /\ ev'.op = "enter" =>
       UNCHANGED <<node_map, refresh_mode, cur_node, ea>> /\ ~ev'.conv
  /\ (ev.op = "enter" /\ ev'.op = "user_refresh" /\ DOMAIN node_map # {}) =>
       node_map' = node_map /\ ~ev'.conv

\* C18: enter, on a row of any type, leaves node_map, refresh_mode and
\* cur_node as they are and does not call the converter; the paint pull that
\* follows enter on a context whose node_map is built does not call the
\* converter either and keeps node_map.
C18_SelectionKeepsNodeMap == [][C18_Step]_vars

\* C18 witness: a group row was selected on a context whose node_map is
\* built, and the highlight was rewritten.
C18_Witness ==
  /\ EnterOn(chnt_gd) /\ ev.refreshed
  /\ DOMAIN node_map # {}
  /\ DOMAIN sel_nodes # ev.pre

\* the state part of C19: what grcode_user_text gave back
C19_Answer ==
  ev.op = "user_text" =>
    /\ ev.n \in DOMAIN node_map
    /\ ev.out[1] = node_map[ev.n].text
    /\ ev.out[3] = 1
    /\ ev.bg => /\ ev.out[2] # 0 <=> ev.n \in DOMAIN sel_nodes
                /\ ev.n \in DOMAIN sel_nodes => ev.out[2] = sel_nodes[ev.n]
    /\ ~ev.bg => ev.out[2] = 0

\* the step part of C19: what the two notifications leave unchanged
C19_Step ==
  /\ ev'.op = "user_text" =>
       UNCHANGED <<chooser_vars, ctx_vars, life_vars, crashed>>
  /\ ev'.op = "changed_current" =>
       /\ cur_node' = ev'.n
       /\ UNCHANGED <<chooser_vars, ctx_alive, ea, node_map, gv, form, sel_nodes,
                      parent_ref, refresh_mode, life_vars, crashed>>

\* C19: grcode_user_text for a node of a built node_map returns the node's
\* text and result 1 and, the caller having passed a place for the colour,
\* writes a colour exactly when sel_nodes holds the node (the colour stored
\* for it) and nothing otherwise; it changes neither node_map nor sel_nodes.
\* grcode_changed_current sets cur_node and changes nothing else.
C19_QueriesAreReadOnly == []C19_Answer /\ [][C19_Step]_vars

\* C19 witness: the text of a highlighted node was asked for, with a place
\* for the colour.
C19_Witness ==
  /\ ev.op = "user_text" /\ ev.bg
  /\ ev.n \in DOMAIN sel_nodes
  /\ ev.out[2] = sel_nodes[ev.n]

\* the highlight a row of type chnt_nl or chnt_gd stands for, from the row
\* alone
RowHighlight(chn) ==
  LET t == heap[chn.gm].tree IN
  IF chn.type = chnt_nl
  THEN [id \in Range(t[chn.gd][chn.nl]) |-> Color(1, 1)]
  ELSE [id \in NglIds(t[chn.ngl]) |->
          LET j == CHOOSE k \in DOMAIN t[chn.ngl] : id \in Range(t[chn.ngl][k])
          IN Color((((j - 1) \div NumVariants) % NumBases) + 1, ((j - 1) % NumVariants) + 1)]

\* the state part of C20: the highlight is the one the row stands for
C20_FromRowAlone ==
  (EnterOn(chnt_nl) \/ EnterOn(chnt_gd)) => sel_nodes = RowHighlight(ch_nodes[ev.n])

\* the step part of C20: enter on the row entered last, of whatever type
C20_Step ==
  (/\ ev.op = "enter" /\ ev.applied /\ ~ev.ub /\ ~crashed
   /\ ev'.op = "enter" /\ ev'.applied /\ ~ev'.ub /\ ~crashed'
   /\ ev'.n = ev.n) => sel_nodes' = sel_nodes

\* C20: after enter on a chnt_nl or chnt_gd row sel_nodes is a function of
\* the row alone, whatever was selected before; enter on the row that was
\* entered last leaves sel_nodes as the first enter left it.
C20_ColoringIsDeterministic == []C20_FromRowAlone /\ [][C20_Step]_vars

\* C20 witness: a group row of two lists or more was selected while another
\* set of nodes was highlighted.
C20_Witness ==
  /\ EnterOn(chnt_gd)
  /\ Len(EvNgl) >= 2
  /\ ev.pre # {} /\ ev.pre # DOMAIN sel_nodes
====
